---- MODULE Spec2Model ----
(***************************************************************************)
(* CSP-Validator (src/CSPValidator.py): a Sublime Text plugin that scans   *)
(* the text of a view against eight regular-expression rules and draws     *)
(* each match as a marker.                                                 *)
(*                                                                         *)
(* Text is a sequence of one-character strings; offsets are 0-based and a  *)
(* region [a, b) is the record [a |-> a, b |-> b].  A field that can hold   *)
(* Python's None holds None for it and Some(x) for any other value x.      *)
(* Every event handler of the plugin runs to completion on the host's main *)
(* thread, so each handler is one action.                                  *)
(***************************************************************************)
EXTENDS Integers, Sequences, FiniteSets, TLC

None == <<>>
Some(x) == <<x>>
Val(p) == p[1]

(***************************************************************************)
(* Regular expressions.  A pattern is a tree:                              *)
(*   Lit(cs)        the characters cs, in order                            *)
(*   Set(S)/NotSet(S)  a character class [S] / [^S]                        *)
(*   Dot(s)         '.', which matches a line break only under (?s)        *)
(*   Cat(rs)        concatenation, Alt(rs) alternation (leftmost first)    *)
(*   Star/Plus/Opt  greedy repetition, LazyStar/LazyPlus the '?' forms     *)
(* Ends(re, txt, i) is the list of offsets at which a match of re that     *)
(* starts at offset i can end, in the order a backtracking matcher tries   *)
(* them; its head is the match the engine reports.                         *)
(***************************************************************************)
Lit(cs) == [t |-> "lit", cs |-> cs]
Set(S) == [t |-> "set", s |-> S, neg |-> FALSE]
NotSet(S) == [t |-> "set", s |-> S, neg |-> TRUE]
Dot(dotall) == [t |-> "dot", s |-> dotall]
Cat(rs) == [t |-> "cat", rs |-> rs]
Alt(rs) == [t |-> "alt", rs |-> rs]
Star(r) == [t |-> "rep", r |-> r, min |-> 0, many |-> TRUE, lazy |-> FALSE]
Plus(r) == [t |-> "rep", r |-> r, min |-> 1, many |-> TRUE, lazy |-> FALSE]
Opt(r) == [t |-> "rep", r |-> r, min |-> 0, many |-> FALSE, lazy |-> FALSE]
LazyStar(r) == [t |-> "rep", r |-> r, min |-> 0, many |-> TRUE, lazy |-> TRUE]
LazyPlus(r) == [t |-> "rep", r |-> r, min |-> 1, many |-> TRUE, lazy |-> TRUE]

\* \s
Whitespace == {" ", "\n", "\t"}

UpperCase ==
  <<"A","B","C","D","E","F","G","H","I","J","K","L","M",
    "N","O","P","Q","R","S","T","U","V","W","X","Y","Z">>

LowerCase ==
  <<"a","b","c","d","e","f","g","h","i","j","k","l","m",
    "n","o","p","q","r","s","t","u","v","w","x","y","z">>

ToLower ==
  [c \in {UpperCase[k] : k \in 1..Len(UpperCase)} |->
     LowerCase[CHOOSE k \in 1..Len(UpperCase) : UpperCase[k] = c]]

\* Case folding, as the IGNORECASE flag of find_all and of re.search applies it.
Lower(c) == IF c \in DOMAIN ToLower THEN ToLower[c] ELSE c

\* Case-sensitive comparison of characters: what the matcher would do without
\* the IGNORECASE flag.
FoldExact(c) == c

\* The folding the searches of the plugin are issued with (sublime.IGNORECASE,
\* re.IGNORECASE).
Fold(c) == Lower(c)

CharIn(c, S) == \E d \in S : Fold(d) = Fold(c)

\* A pattern that matches exactly one character, and whether it matches c.
IsAtom(re) == re.t \in {"set", "dot"} \/ (re.t = "lit" /\ Len(re.cs) = 1)

AtomOk(re, c) ==
  CASE re.t = "lit" -> Fold(c) = Fold(re.cs[1])
    [] re.t = "set" -> CharIn(c, re.s) # re.neg
    [] re.t = "dot" -> re.s \/ c # "\n"

\* The number of characters from offset i on that the atom matches in a row.
RunLength(re, txt, i) ==
  CHOOSE n \in 0..(Len(txt) - i) :
    /\ \A j \in 1..n : AtomOk(re, txt[i + j])
    /\ n = Len(txt) - i \/ ~ AtomOk(re, txt[i + n + 1])

RECURSIVE Ends(_, _, _), EndsCat(_, _, _, _), EndsAlt(_, _, _, _),
          EndsRep(_, _, _), EndsEach(_, _, _, _), CatEach(_, _, _, _, _)

Ends(re, txt, i) ==
  CASE re.t = "lit" ->
         IF /\ i + Len(re.cs) <= Len(txt)
            /\ \A k \in 1..Len(re.cs) : Fold(txt[i + k]) = Fold(re.cs[k])
         THEN <<i + Len(re.cs)>>
         ELSE <<>>
    [] re.t \in {"set", "dot"} ->
         IF i < Len(txt) /\ AtomOk(re, txt[i + 1]) THEN <<i + 1>> ELSE <<>>
    [] re.t = "cat" -> EndsCat(re.rs, 1, txt, i)
    [] re.t = "alt" -> EndsAlt(re.rs, 1, txt, i)
    [] re.t = "rep" -> EndsRep(re, txt, i)

\* rs[k..] matched from offset i
EndsCat(rs, k, txt, i) ==
  IF k > Len(rs) THEN <<i>>
  ELSE CatEach(rs, k, txt, Ends(rs[k], txt, i), 1)

\* for each end es[n..] of rs[k], in order, the ends of rs[k+1..] from there
CatEach(rs, k, txt, es, n) ==
  IF n > Len(es) THEN <<>>
  ELSE EndsCat(rs, k + 1, txt, es[n]) \o CatEach(rs, k, txt, es, n + 1)

EndsAlt(rs, k, txt, i) ==
  IF k > Len(rs) THEN <<>>
  ELSE Ends(rs[k], txt, i) \o EndsAlt(rs, k + 1, txt, i)

\* for each end es[n..] of one more iteration, the ends of the further ones
EndsEach(re, txt, es, n) ==
  IF n > Len(es) THEN <<>>
  ELSE EndsRep([re EXCEPT !.min = 0], txt, es[n]) \o EndsEach(re, txt, es, n + 1)

\* A repetition.  Of an atom, it can stop after min..RunLength characters:
\* the longest first when greedy, the shortest first when lazy.
EndsRep(re, txt, i) ==
  IF re.many /\ IsAtom(re.r)
  THEN LET n == RunLength(re.r, txt, i)
       IN  [k \in 1..(n - re.min + 1) |->
              IF re.lazy THEN i + re.min + (k - 1) ELSE i + n - (k - 1)]
  ELSE LET once == Ends(re.r, txt, i)
           more == IF re.many THEN EndsEach(re, txt, once, 1) ELSE once
       IN  IF re.min = 1 THEN more
           ELSE IF re.lazy THEN <<i>> \o more
           ELSE more \o <<i>>

Region(a, b) == [a |-> a, b |-> b]

\* The offsets at which a match of re starts.
Starts(txt, re) == {s \in 0..Len(txt) : Ends(re, txt, s) # <<>>}

Min(S) == CHOOSE s \in S : \A u \in S : s <= u

RECURSIVE FindFrom(_, _, _, _)
\* the match [s, e), then the matches after its end
MatchThenRest(txt, re, starts, s, e) ==
  <<Region(s, e)>> \o FindFrom(txt, re, starts, IF e > s THEN e ELSE s + 1)

\* the leftmost of the matches that start at an offset of from, and the rest
LeftmostOf(txt, re, starts, from) ==
  IF from = {} THEN <<>>
  ELSE MatchThenRest(txt, re, starts, Min(from), Ends(re, txt, Min(from))[1])

\* The matches of re from offset pos on; starts are the offsets at which a
\* match starts.
FindFrom(txt, re, starts, pos) ==
  LeftmostOf(txt, re, starts, {s \in starts : s >= pos})

\* view.find_all(pattern, sublime.IGNORECASE): the successive non-overlapping
\* matches of the pattern, from the start of the buffer.
find_all(txt, re) == FindFrom(txt, re, Starts(txt, re), 0)

(***************************************************************************)
(* The rules of CSPValidator.rules, in declaration order.                  *)
(***************************************************************************)
Quotes == {"\"", "'"}

\* "<(img|script).*?\ssrc\s?=\s?[\"']+http[^\"\']*[\"\']?"
ExternalSrcPattern ==
  Cat(<<Lit(<<"<">>), Alt(<<Lit(<<"i","m","g">>), Lit(<<"s","c","r","i","p","t">>)>>), LazyStar(Dot(FALSE)),
        Set(Whitespace), Lit(<<"s","r","c">>), Opt(Set(Whitespace)), Lit(<<"=">>),
        Opt(Set(Whitespace)), Plus(Set(Quotes)), Lit(<<"h","t","t","p">>),
        Star(NotSet(Quotes)), Opt(Set(Quotes))>>)

\* "<link.+?href\s?=\s?[\"']+http[^\"\']*[\"\']?"
ExternalLinkPattern ==
  Cat(<<Lit(<<"<","l","i","n","k">>), LazyPlus(Dot(FALSE)), Lit(<<"h","r","e","f">>),
        Opt(Set(Whitespace)), Lit(<<"=">>), Opt(Set(Whitespace)),
        Plus(Set(Quotes)), Lit(<<"h","t","t","p">>), Star(NotSet(Quotes)), Opt(Set(Quotes))>>)

\* "(?ms)<script[^>]*>[^<]+?" + "[^\s<]+?" + ".*?</script>"
InlineScriptPattern ==
  Cat(<<Lit(<<"<","s","c","r","i","p","t">>), Star(NotSet({">"})), Lit(<<">">>),
        LazyPlus(NotSet({"<"})), LazyPlus(NotSet(Whitespace \cup {"<"})),
        LazyStar(Dot(TRUE)), Lit(<<"<","/","s","c","r","i","p","t",">">>)>>)

\* "eval|new Function"
EvalPattern == Alt(<<Lit(<<"e","v","a","l">>), Lit(<<"n","e","w"," ","F","u","n","c","t","i","o","n">>)>>)

\* "setTimeout\s?\(\"[^\"]*\""
SetTimeoutPattern ==
  Cat(<<Lit(<<"s","e","t","T","i","m","e","o","u","t">>), Opt(Set(Whitespace)), Lit(<<"(", "\"">>),
        Star(NotSet({"\""})), Lit(<<"\"">>)>>)

\* "<.*?\son[^>]*?>"
EventHandlerPattern ==
  Cat(<<Lit(<<"<">>), LazyStar(Dot(FALSE)), Set(Whitespace), Lit(<<"o", "n">>),
        LazyStar(NotSet({">"})), Lit(<<">">>)>>)

\* "url\(\"?(?:https?:)?//[^\)]*\)"
CssUrlPattern ==
  Cat(<<Lit(<<"u","r","l","(">>), Opt(Lit(<<"\"">>)),
        Opt(Cat(<<Lit(<<"h","t","t","p">>), Opt(Lit(<<"s">>)), Lit(<<":">>)>>)),
        Lit(<<"/", "/">>), Star(NotSet({")"})), Lit(<<")">>)>>)

\* "<.*?href.*?javascript:.*?>"
JavascriptHrefPattern ==
  Cat(<<Lit(<<"<">>), LazyStar(Dot(FALSE)), Lit(<<"h","r","e","f">>), LazyStar(Dot(FALSE)),
        Lit(<<"j","a","v","a","s","c","r","i","p","t",":">>), LazyStar(Dot(FALSE)), Lit(<<">">>)>>)

CSPRule(rule, message, setting) ==
  [rule |-> rule, message |-> message, setting |-> setting]

rules ==
  << CSPRule(ExternalSrcPattern, "External resources are not allowed",
             Some("csp_chromeapps")),
     CSPRule(ExternalLinkPattern, "External resources are not allowed",
             Some("csp_chromeapps")),
     CSPRule(InlineScriptPattern, "Inline scripts are not allowed", None),
     CSPRule(EvalPattern,
             "Code creation from strings, e.g. eval / new Function not allowed",
             None),
     CSPRule(SetTimeoutPattern,
             "Code creation from strings, e.g. setTimeout(\"string\") is not allowed",
             None),
     CSPRule(EventHandlerPattern,
             "Event handlers should be added from an external src file", None),
     CSPRule(CssUrlPattern, "External resources are not allowed",
             Some("csp_chromeapps")),
     CSPRule(JavascriptHrefPattern, "Inline JavaScript calls are not allowed",
             Some("csp_chromeapps")) >>

(***************************************************************************)
(* The buffers of the model.                                               *)
(***************************************************************************)

\* The buffers of the open views, by view.
Doc1 == <<"<"," ","o","n",">","e","v","a","l","u","r","l","(","/","/",")">>
Doc2 == <<"e","v","a","l","<"," ","o","n",">">>
Documents == <<Doc1, Doc2>>

\* Pieces of HTML, JavaScript and CSS: every rule matches in one of them,
\* FragHandlerHref is matched by two rules over the same span, and FragPlain
\* by none.
FragEval == <<"e","v","a","l">>
FragHandler == <<"<"," ","o","n",">">>
FragCssUrl == <<"u","r","l","(","/","/",")">>
FragHandlerHref == <<"<"," ","o","n","h","r","e","f","j","a","v","a","s","c","r","i","p","t",":",">">>
FragInlineScript == <<"<","s","c","r","i","p","t",">","x","<","/","s","c","r","i","p","t",">">>
FragImg == <<"<","i","m","g"," ","s","r","c","=","\"","h","t","t","p","\"",">">>
FragLink == <<"<","l","i","n","k"," ","h","r","e","f","=","'","h","t","t","p","'",">">>
FragSetTimeout == <<"s","e","t","T","i","m","e","o","u","t","(","\"","\"",")">>
FragPlain == <<"x"," ">>
Fragments ==
  {FragEval, FragHandler, FragCssUrl, FragHandlerHref, FragInlineScript,
   FragImg, FragLink, FragSetTimeout, FragPlain}

\* The most fragments a text is made of.
MaxFrags == 2

RECURSIVE TextsOf(_)
TextsOf(n) ==
  IF n = 0 THEN {<<>>}
  ELSE TextsOf(n - 1) \cup {t \o f : t \in TextsOf(n - 1), f \in Fragments}

\* The texts validate_contents is applied to as a function.
Texts == TextsOf(MaxFrags)

(***************************************************************************)
(* CSPValidator.validate_contents                                          *)
(***************************************************************************)

\* view.find_all of every rule's pattern, computed once for each buffer of
\* the open views and once for each text of Texts.
DocumentMatches ==
  [txt \in {Documents[d] : d \in 1..Len(Documents)} |->
     [k \in 1..Len(rules) |-> find_all(txt, rules[k].rule)]]

TextMatches ==
  [txt \in Texts |-> [k \in 1..Len(rules) |-> find_all(txt, rules[k].rule)]]

\* matches = view.find_all(rule.rule, sublime.IGNORECASE), for rule k
Matches(txt, k) ==
  IF txt \in DOMAIN DocumentMatches THEN DocumentMatches[txt][k]
  ELSE IF txt \in DOMAIN TextMatches THEN TextMatches[txt][k]
  ELSE find_all(txt, rules[k].rule)

\* view.settings().get(name): None when the view has no value for name
SettingsGet(vs, name) == IF name \in DOMAIN vs THEN vs[name] ELSE None

\* A finding.  rule is a history field the code does not have: the index of
\* the rule whose match appended the finding.
CSPError(region, message, rule) ==
  [region |-> region, message |-> message, rule |-> rule]

\* RuleApplies testing the flag for truth instead of comparing it with 1
RuleAppliesTruthy(rule, vs) ==
  rule.setting = None
    \/ SettingsGet(vs, Val(rule.setting)) \notin {None, Some(0)}

\* RuleApplies testing that the flag is not 0 instead of comparing it with 1
RuleAppliesUnlessOff(rule, vs) ==
  rule.setting = None \/ SettingsGet(vs, Val(rule.setting)) # Some(0)

\* the condition of the if statement in the loop of validate_contents
RuleApplies(rule, vs) ==
  rule.setting = None \/ SettingsGet(vs, Val(rule.setting)) = Some(1)

RECURSIVE AppendMatches(_, _, _, _)
\* AppendMatches inserting each finding at the front of the list
AppendMatchesFront(errs, matches, k, n) ==
  IF n > Len(matches) THEN errs
  ELSE AppendMatches(<<CSPError(matches[n], rules[k].message, k)>> \o errs,
                     matches, k, n + 1)

\* AppendMatches taking an empty list of matches for the single "not found"
\* region (-1, -1) that view.find returns
AppendMatchesOrNotFound(errs, matches, k, n) ==
  IF matches = <<>>
  THEN Append(errs, CSPError(Region(-1, -1), rules[k].message, k))
  ELSE IF n > Len(matches) THEN errs
  ELSE AppendMatches(Append(errs, CSPError(matches[n], rules[k].message, k)),
                     matches, k, n + 1)

\* for match in matches: errors.append(CSPError(match, rule.message))
AppendMatches(errs, matches, k, n) ==
  IF n > Len(matches) THEN errs
  ELSE AppendMatches(Append(errs, CSPError(matches[n], rules[k].message, k)),
                     matches, k, n + 1)

RECURSIVE ValidateFrom(_, _, _, _)
\* ValidateFrom leaving the loop after the first rule that has a match
ValidateFirstRule(txt, vs, k, errs) ==
  IF k > Len(rules) \/ errs # <<>> THEN errs
  ELSE ValidateFrom(txt, vs, k + 1,
         IF RuleApplies(rules[k], vs)
         THEN AppendMatches(errs, Matches(txt, k), k, 1)
         ELSE errs)

\* the iterations of "for rule in self.rules" from rule k on
ValidateFrom(txt, vs, k, errs) ==
  IF k > Len(rules) THEN errs
  ELSE ValidateFrom(txt, vs, k + 1,
         IF RuleApplies(rules[k], vs)
         THEN AppendMatches(errs, Matches(txt, k), k, 1)
         ELSE errs)

validate_contents(txt, vs) == ValidateFrom(txt, vs, 1, <<>>)

(***************************************************************************)
(* The host: views, their settings, markers and status, the plugin         *)
(* settings object, and the event listener CSPValidatorCommand.            *)
(***************************************************************************)

\* Values of the 'syntax' setting of a view.
SyntaxHTML == <<"H","T","M","L">>
SyntaxPython == <<"P","y","t","h","o","n">>
SyntaxJavaScript == <<"J","a","v","a","S","c","r","i","p","t">>
SyntaxSCSS == <<"S","C","S","S">>
Syntaxes ==
  {None, Some(SyntaxHTML), Some(SyntaxPython), Some(SyntaxJavaScript),
   Some(SyntaxSCSS)}

\* Values a key of the plugin settings file can have (None: key absent).
FileValues == {None, Some(0), Some(1)}

\* Values of view.sel(): regions sorted by position; b is the caret, so a
\* region may run backwards.
Selections ==
  { <<Region(12, 12)>>, <<Region(8, 6)>>, <<Region(2, 2), Region(7, 7)>> }

\* DEFAULT_SETTINGS with the Chrome Apps rules on
DEFAULT_SETTINGS_ChromeApps == [csp_enabled |-> Some(1), csp_chromeapps |-> Some(1)]

DEFAULT_SETTINGS == [csp_enabled |-> Some(1), csp_chromeapps |-> Some(0)]
SettingNames == {"csp_enabled", "csp_chromeapps"}

VARIABLES
  views,           \* the open views, in the order of sublime.windows()/views()
  text,            \* view -> contents of the buffer
  settings,        \* view -> view.settings()
  regions,         \* view -> regions drawn under 'cspvalidator_errors'
  status,          \* view -> status under 'cspvalidation_error', or None
  errors,          \* CSPValidatorCommand.errors of the event listener
  pluginSettings,  \* contents of the plugin's settings object
  onChange,        \* the settings object holds the 'csp_validator' callback
  last,            \* history: what the handler run last did
  findings         \* history: view -> what the most recent validate_contents
                   \* on the view returned, or None

vars ==
  <<views, text, settings, regions, status, errors, pluginSettings, onChange,
    last, findings>>

Views == {views[k] : k \in 1..Len(views)}

\* The history record: the handler, the views run_validator ran on, the
\* passes made (view, settings and result of each validate_contents), the
\* view and selection of an on_selection_modified, whether the handler
\* raised.
Did(op, ran, passes, view, sel, raised) ==
  [op |-> op, ran |-> ran, passes |-> passes, view |-> view, sel |-> sel,
   raised |-> raised]

Nothing == Did("", <<>>, <<>>, None, None, FALSE)

Unconfigured ==
  [csp_configured |-> None, csp_enabled |-> None, csp_chromeapps |-> None,
   syntax |-> Some(SyntaxHTML)]

\* The state after the plugin is loaded, with the views vw open.
InitWith(vw) ==
  /\ views = vw
  /\ text = [v \in {vw[k] : k \in 1..Len(vw)} |-> Documents[v]]
  /\ settings = [v \in {vw[k] : k \in 1..Len(vw)} |-> Unconfigured]
  /\ regions = [v \in {vw[k] : k \in 1..Len(vw)} |-> <<>>]
  /\ status = [v \in {vw[k] : k \in 1..Len(vw)} |-> None]
  /\ errors = None
  /\ pluginSettings \in [SettingNames -> FileValues]
  /\ onChange = FALSE
  /\ last = Nothing
  /\ findings = [v \in {vw[k] : k \in 1..Len(vw)} |-> None]

RECURSIVE ClearFrom(_, _, _)
\* clear_settings: the loop over the views, from vw[k] on
ClearFrom(st, vw, k) ==
  IF k > Len(vw) THEN st
  ELSE ClearFrom(
         IF st[vw[k]].csp_configured # None
         THEN [st EXCEPT ![vw[k]].csp_configured = None]
         ELSE st,
         vw, k + 1)

clear_settings(st, vw) == ClearFrom(st, vw, 1)

\* SettingValue testing the user's value for truth instead of comparing it
\* with None
SettingValueTruthy(ps, setting) ==
  IF ps[setting] \notin {None, Some(0)} THEN ps[setting]
  ELSE DEFAULT_SETTINGS[setting]

\* the value apply_settings gives a setting
SettingValue(ps, setting) ==
  IF ps[setting] # None THEN ps[setting] ELSE DEFAULT_SETTINGS[setting]

\* apply_settings on the settings vs of one view
apply_settings(vs, ps) ==
  IF vs.csp_configured = None
  THEN [vs EXCEPT !.csp_configured = Some(TRUE),
                  !.csp_enabled = SettingValue(ps, "csp_enabled"),
                  !.csp_chromeapps = SettingValue(ps, "csp_chromeapps")]
  ELSE vs

\* 'html|javascript|css'
SyntaxPattern ==
  Alt(<<Lit(<<"h","t","m","l">>), Lit(<<"j","a","v","a","s","c","r","i","p","t">>), Lit(<<"c","s","s">>)>>)

\* re.search(pattern, s, flags=re.IGNORECASE) != None
Search(re, s) == \E pos \in 0..Len(s) : Ends(re, s, pos) # <<>>

\* is_valid_file_type taking every syntax for one to check
is_valid_file_typeAny(vs) == SettingsGet(vs, "syntax") # None

is_valid_file_type(vs) ==
  LET syntax == SettingsGet(vs, "syntax")
  IN  IF syntax # None THEN Search(SyntaxPattern, Val(syntax)) ELSE FALSE

RECURSIVE ErrorRegions(_, _)
\* show_errors: the list it hands to view.add_regions
ErrorRegions(errs, n) ==
  IF n > Len(errs) THEN <<>>
  ELSE <<errs[n].region>> \o ErrorRegions(errs, n + 1)

show_errors(errs) == ErrorRegions(errs, 1)

(***************************************************************************)
(* run_validator(view) on an instance of CSPValidatorCommand.  w is the    *)
(* part of the state a run reads and writes: the views' settings, regions  *)
(* and status, the errors field of the instance, and the history of the    *)
(* passes made.                                                            *)
(***************************************************************************)
World(st, rg, stt, errs, passes) ==
  [settings |-> st, regions |-> rg, status |-> stt, errors |-> errs,
   passes |-> passes]

Pass(v, vs, found) == [view |-> v, settings |-> vs, result |-> found]

\* StoreAndShow without the call of show_errors
StoreWithoutShow(w, v, found) ==
  [w EXCEPT !.errors = Some(found),
            !.passes = Append(@, Pass(v, w.settings[v], found))]

\* self.errors = found; if self.errors != None: self.show_errors(view)
StoreAndShow(w, v, found) ==
  [w EXCEPT !.errors = Some(found),
            !.regions[v] = show_errors(found),
            !.passes = Append(@, Pass(v, w.settings[v], found))]

\* RunConfigured erasing the markers of a view that is not to be checked
RunConfiguredEraseIneligible(w, v, txt) ==
  IF SettingsGet(w.settings[v], "csp_enabled") = Some(0)
     \/ ~ is_valid_file_type(w.settings[v])
  THEN [w EXCEPT !.regions[v] = <<>>]
  ELSE StoreAndShow(w, v, validate_contents(txt[v], w.settings[v]))

\* RunConfigured without the early return of a disabled view
RunConfiguredUngated(w, v, txt) ==
  IF ~ is_valid_file_type(w.settings[v])
  THEN w
  ELSE StoreAndShow(w, v, validate_contents(txt[v], w.settings[v]))

\* run_validator from the first early return on; self.clear_errors, without
\* the call, does nothing
RunConfigured(w, v, txt) ==
  IF SettingsGet(w.settings[v], "csp_enabled") = Some(0)
  THEN [w EXCEPT !.regions[v] = <<>>]
  ELSE IF ~ is_valid_file_type(w.settings[v])
  THEN w
  ELSE StoreAndShow(w, v, validate_contents(txt[v], w.settings[v]))

run_validator(w, v, txt, ps) ==
  RunConfigured([w EXCEPT !.status[v] = None,
                          !.settings[v] = apply_settings(w.settings[v], ps)],
                v, txt)

\* the history of the most recent results, after the passes made
Recorded(fs, passes) ==
  [v \in DOMAIN fs |->
     IF \E n \in 1..Len(passes) : passes[n].view = v
     THEN Some(passes[CHOOSE n \in 1..Len(passes) : passes[n].view = v].result)
     ELSE fs[v]]

\* an event of the listener whose handler is run_validator(view)
RunOn(op, v) ==
  \E w \in {run_validator(World(settings, regions, status, errors, <<>>),
                          v, text, pluginSettings)} :
      /\ settings' = w.settings
      /\ regions' = w.regions
      /\ status' = w.status
      /\ errors' = w.errors
      /\ onChange' = TRUE
      /\ last' = Did(op, <<v>>, w.passes, Some(v), None, FALSE)
      /\ findings' = Recorded(findings, w.passes)
      /\ UNCHANGED <<views, text, pluginSettings>>

on_load(v) == RunOn("on_load", v)

on_activated(v) == RunOn("on_activated", v)

on_post_save(v) == RunOn("on_post_save", v)

\* region.contains(sel)
Begin(r) == IF r.a <= r.b THEN r.a ELSE r.b
End(r) == IF r.a <= r.b THEN r.b ELSE r.a
Contains(r, sel) == Begin(r) <= Begin(sel) /\ End(r) >= End(sel)

RECURSIVE StatusFor(_, _, _, _)
RECURSIVE StatusForErrorsFirst(_, _, _, _)
\* StatusFor with the loops nested the other way: errors outside,
\* selections inside (i counts the errors, n the selections)
StatusForErrorsFirst(sel, errs, i, n) ==
  IF i > Len(errs) THEN None
  ELSE IF n > Len(sel) THEN StatusForErrorsFirst(sel, errs, i + 1, 1)
  ELSE IF Contains(errs[i].region, sel[n]) THEN Some(errs[i].message)
  ELSE StatusForErrorsFirst(sel, errs, i, n + 1)

\* the two loops of on_selection_modified, from selection i and error n on:
\* the message set, None when the loops end without setting one
StatusFor(sel, errs, i, n) ==
  IF i > Len(sel) THEN None
  ELSE IF n > Len(errs) THEN StatusFor(sel, errs, i + 1, 1)
  ELSE IF Contains(errs[n].region, sel[i]) THEN Some(errs[n].message)
  ELSE StatusFor(sel, errs, i, n + 1)

on_selection_modified(v, sel) ==
  /\ status' = [status EXCEPT ![v] =
                  IF errors # None THEN StatusFor(sel, Val(errors), 1, 1)
                  ELSE None]
  /\ last' = Did("on_selection_modified", <<>>, <<>>, Some(v), Some(sel), FALSE)
  /\ UNCHANGED <<views, text, settings, regions, errors, pluginSettings,
                 onChange, findings>>

RECURSIVE RunAllFrom(_, _, _, _, _)
\* run_validator_all_views: the loop over the views, from vw[k] on
RunAllFrom(w, vw, k, txt, ps) ==
  IF k > Len(vw) THEN w
  ELSE RunAllFrom(run_validator(w, vw[k], txt, ps), vw, k + 1, txt, ps)

run_validator_all_views(w, vw, txt, ps) == RunAllFrom(w, vw, 1, txt, ps)

\* ContentSecurityPolicyToggleCommand.run.  With the key absent from the
\* settings, 1 - None raises TypeError before anything is changed.  The
\* command makes its own CSPValidatorCommand, whose errors field starts as
\* the class's None and is dropped with the instance.
Toggle ==
  IF pluginSettings["csp_enabled"] = None
  THEN /\ last' = Did("toggle", <<>>, <<>>, None, None, TRUE)
       /\ UNCHANGED <<views, text, settings, regions, status, errors,
                      pluginSettings, onChange, findings>>
  ELSE \E w \in {run_validator_all_views(
                     World(clear_settings(settings, views), regions, status,
                           None, <<>>),
                     views, text,
                     [pluginSettings EXCEPT !["csp_enabled"] = Some(1 - Val(@))])} :
           /\ pluginSettings' =
                [pluginSettings EXCEPT !["csp_enabled"] = Some(1 - Val(@))]
           /\ settings' = w.settings
           /\ regions' = w.regions
           /\ status' = w.status
           /\ onChange' = TRUE
           /\ last' = Did("toggle", views, w.passes, None, None, FALSE)
           /\ findings' = Recorded(findings, w.passes)
           /\ UNCHANGED <<views, text, errors>>

\* The user edits the plugin's settings file: the host reloads the settings
\* object and calls the callback apply_settings registered, clear_settings.
SettingsFileChanged(ps) ==
  /\ ps # pluginSettings
  /\ pluginSettings' = ps
  /\ settings' = IF onChange THEN clear_settings(settings, views) ELSE settings
  /\ last' = Nothing
  /\ UNCHANGED <<views, text, regions, status, errors, onChange, findings>>

\* The user picks another syntax for a view.
SetSyntax(v, syntax) ==
  /\ syntax # settings[v].syntax
  /\ settings' = [settings EXCEPT ![v].syntax = syntax]
  /\ last' = Nothing
  /\ UNCHANGED <<views, text, regions, status, errors, pluginSettings,
                 onChange, findings>>

(***************************************************************************)
(* Spec: one open view, every event of the host.                           *)
(***************************************************************************)
Init == InitWith(<<1>>)

Next ==
  \/ \E v \in Views : on_load(v)
  \/ \E v \in Views : on_activated(v)
  \/ \E v \in Views : on_post_save(v)
  \/ \E v \in Views, sel \in Selections : on_selection_modified(v, sel)
  \/ Toggle
  \/ \E ps \in [SettingNames -> FileValues] : SettingsFileChanged(ps)
  \/ \E v \in Views, syntax \in Syntaxes : SetSyntax(v, syntax)

Spec == Init /\ [][Next]_vars

(***************************************************************************)
(* SpecViews: two open views and the events the plugin handles; the        *)
(* settings file is as the run finds it and changes by the toggle only.    *)
(***************************************************************************)
InitViews == InitWith(<<1, 2>>)

NextViews ==
  \/ \E v \in Views : on_load(v)
  \/ \E v \in Views : on_activated(v)
  \/ \E v \in Views : on_post_save(v)
  \/ \E v \in Views, sel \in Selections : on_selection_modified(v, sel)
  \/ Toggle
  \/ \E v \in Views, syntax \in Syntaxes : SetSyntax(v, syntax)

SpecViews == InitViews /\ [][NextViews]_vars

(***************************************************************************)
(* SpecValidate: validate_contents as a function of the text and the       *)
(* settings of the view, applied to every text of Texts under every value  *)
(* of the flag.                                                            *)
(***************************************************************************)

\* Values view.settings().get('csp_chromeapps') can return.
FlagValues == {None, Some(0), Some(1), Some(2)}

InitValidate ==
  /\ views = <<1>>
  /\ text \in [{1} -> Texts]
  /\ settings \in
       [{1} -> {[csp_configured |-> Some(TRUE), csp_enabled |-> Some(1),
                 csp_chromeapps |-> f, syntax |-> Some(SyntaxHTML)] :
                f \in FlagValues}]
  /\ regions = [v \in {1} |-> <<>>]
  /\ status = [v \in {1} |-> None]
  /\ errors = None
  /\ pluginSettings = [name \in SettingNames |-> None]
  /\ onChange = FALSE
  /\ last = Nothing
  /\ findings = [v \in {1} |-> None]

\* Validate with a validate_contents that draws the regions it finds
ValidateAndDraw(v) ==
  /\ last = Nothing
  /\ \E found \in {validate_contents(text[v], settings[v])} :
        /\ errors' = Some(found)
        /\ regions' = [regions EXCEPT ![v] = show_errors(found)]
        /\ last' = Did("validate_contents", <<>>,
                       <<Pass(v, settings[v], found)>>, Some(v), None, FALSE)
        /\ findings' = [findings EXCEPT ![v] = Some(found)]
  /\ UNCHANGED <<views, text, settings, status, pluginSettings, onChange>>

\* self.errors = self.validator.validate_contents(view)
Validate(v) ==
  /\ last = Nothing
  /\ \E found \in {validate_contents(text[v], settings[v])} :
        /\ errors' = Some(found)
        /\ last' = Did("validate_contents", <<>>,
                       <<Pass(v, settings[v], found)>>, Some(v), None, FALSE)
        /\ findings' = [findings EXCEPT ![v] = Some(found)]
  /\ UNCHANGED <<views, text, settings, regions, status, pluginSettings,
                 onChange>>

NextValidate == \E v \in Views : Validate(v)

SpecValidate == InitValidate /\ [][NextValidate]_vars

(***************************************************************************)
(* SpecCase: validate_contents applied to texts and to the same texts in   *)
(* capital letters.                                                        *)
(***************************************************************************)
ToUpper ==
  [c \in {LowerCase[k] : k \in 1..Len(LowerCase)} |->
     UpperCase[CHOOSE k \in 1..Len(LowerCase) : LowerCase[k] = c]]

\* the text with every small letter replaced by its capital
UpperText(txt) ==
  [n \in 1..Len(txt) |-> IF txt[n] \in DOMAIN ToUpper THEN ToUpper[txt[n]] ELSE txt[n]]

\* the text with every capital letter replaced by its small letter
LowerText(txt) == [n \in 1..Len(txt) |-> Lower(txt[n])]

\* The most fragments a text of SpecCase is made of.
MaxCaseFrags == 1

CaseTexts ==
  TextsOf(MaxCaseFrags) \cup {UpperText(t) : t \in TextsOf(MaxCaseFrags)}

InitCase ==
  /\ views = <<1>>
  /\ text \in [{1} -> CaseTexts]
  /\ settings \in
       [{1} -> {[csp_configured |-> Some(TRUE), csp_enabled |-> Some(1),
                 csp_chromeapps |-> f, syntax |-> Some(SyntaxHTML)] :
                f \in FlagValues}]
  /\ regions = [v \in {1} |-> <<>>]
  /\ status = [v \in {1} |-> None]
  /\ errors = None
  /\ pluginSettings = [name \in SettingNames |-> None]
  /\ onChange = FALSE
  /\ last = Nothing
  /\ findings = [v \in {1} |-> None]

NextCase == \E v \in Views : Validate(v)

SpecCase == InitCase /\ [][NextCase]_vars

(***************************************************************************)
(* Properties of a validation pass.  They read the passes recorded in     *)
(* last: the view, the view's settings at the time of the pass, and the    *)
(* list validate_contents returned.                                        *)
(***************************************************************************)
Passes == {last.passes[n] : n \in 1..Len(last.passes)}

RuleIds == 1..Len(rules)
Flagged == {k \in RuleIds : rules[k].setting # None}
Unflagged == RuleIds \ Flagged

\* the value of the flag of rule k in the settings vs
FlagOf(k, vs) == SettingsGet(vs, Val(rules[k].setting))

\* the positions of the result holding a finding of rule k
FindingsOf(result, k) == {i \in 1..Len(result) : result[i].rule = k}

\* C1: in every validation pass a rule that names a flag contributes findings
\* only if the flag is equal to 1 for the validated view at the time of the
\* pass, and a rule that names no flag contributes a finding for each of its
\* matches whatever the value of the flag.
C1_FlagGating ==
  \A p \in Passes :
    /\ \A k \in Flagged :
         FindingsOf(p.result, k) # {} => FlagOf(k, p.settings) = Some(1)
    /\ \A k \in Unflagged :
         Cardinality(FindingsOf(p.result, k)) = Len(Matches(text[p.view], k))

\* A pass, with the flag set to a value other than 0 and 1, over a text in
\* which a flagged rule and an unflagged rule both match.
C1_Witness ==
  /\ last.op = "validate_contents"
  /\ \E p \in Passes :
       /\ p.settings.csp_chromeapps = Some(2)
       /\ \E k \in Flagged : Matches(text[p.view], k) # <<>>
       /\ \E k \in Unflagged : FindingsOf(p.result, k) # {}

\* The plugin's settings file overrides nothing.
NoOverrides == [name \in SettingNames |-> None]

\* C2: a view configured by apply_settings while the settings file overrides
\* nothing has csp_enabled = 1 and csp_chromeapps = 0, and a validation pass
\* on it gives no finding of rules 1, 2, 7 and 8, and a finding for every
\* match of rules 3, 4, 5 and 6.
C2_DefaultsSuppress ==
  \A v \in Views :
    (pluginSettings = NoOverrides /\ settings[v].csp_configured # None) =>
      /\ settings[v].csp_enabled = Some(1)
      /\ settings[v].csp_chromeapps = Some(0)
      /\ \A p \in Passes :
           p.view = v =>
             /\ \A k \in {1, 2, 7, 8} : FindingsOf(p.result, k) = {}
             /\ \A k \in {3, 4, 5, 6} :
                  Cardinality(FindingsOf(p.result, k))
                    = Len(Matches(text[v], k))

\* A pass on a view configured from the defaults, over a buffer in which rule
\* 7 matches: the result has findings, none of them of rule 7.
C2_Witness ==
  /\ pluginSettings = NoOverrides
  /\ \E p \in Passes :
       /\ settings[p.view].csp_configured # None
       /\ Matches(text[p.view], 7) # <<>>
       /\ p.result # <<>>
       /\ FindingsOf(p.result, 7) = {}

\* C3: the list a validation pass returns is ordered by rule declaration
\* order and, among the findings of one rule, by the position of the match:
\* of two findings, the earlier in the list is of a rule declared earlier, or
\* is of the same rule and starts earlier in the text.
C3_ResultOrder ==
  \A p \in Passes :
    \A i, j \in 1..Len(p.result) :
      i < j =>
        \/ p.result[i].rule < p.result[j].rule
        \/ /\ p.result[i].rule = p.result[j].rule
           /\ p.result[i].region.a < p.result[j].region.a

\* A result with two findings of one rule, and with two findings of
\* different rules over the same span.
C3_Witness ==
  \E p \in Passes :
    /\ \E i, j \in 1..Len(p.result) :
         i < j /\ p.result[i].rule = p.result[j].rule
    /\ \E i, j \in 1..Len(p.result) :
         /\ i < j
         /\ p.result[i].rule # p.result[j].rule
         /\ p.result[i].region = p.result[j].region

\* The rules whose matches a pass with the settings vs collects.
Active(vs) == {k \in RuleIds : k \in Unflagged \/ FlagOf(k, vs) = Some(1)}

RECURSIVE SumOver(_, _)
\* the sum of the match counts of the rules of S in the text txt
SumOver(S, txt) ==
  IF S = {} THEN 0
  ELSE LET k == CHOOSE x \in S : TRUE
       IN  Len(Matches(txt, k)) + SumOver(S \ {k}, txt)

\* C4: the result of a validation pass has exactly one finding for each
\* match of each active rule, with the span of the match and the message of
\* the rule, and no other finding: its length is the sum of the match counts
\* of the active rules.
C4_EveryMatchOnce ==
  \A p \in Passes :
    /\ \A k \in Active(p.settings) :
         \A n \in 1..Len(Matches(text[p.view], k)) :
           Cardinality({i \in FindingsOf(p.result, k) :
                          /\ p.result[i].region = Matches(text[p.view], k)[n]
                          /\ p.result[i].message = rules[k].message}) = 1
    /\ Len(p.result) = SumOver(Active(p.settings), text[p.view])

\* A result of four findings: two rules with two matches each, the matches
\* of the one over the same spans as the matches of the other.
C4_Witness ==
  \E p \in Passes :
    /\ Len(p.result) = 4
    /\ \E k, u \in Active(p.settings) :
         /\ k < u
         /\ Cardinality(FindingsOf(p.result, k)) = 2
         /\ \A i \in FindingsOf(p.result, k) :
              \E j \in FindingsOf(p.result, u) :
                p.result[i].region = p.result[j].region

\* C9: in a validation pass on a view that has no value for the flag of a
\* rule, that rule gives no finding, nothing is raised, and every rule
\* without a flag gives a finding for each of its matches.
C9_AbsentFlagSkips ==
  \A p \in Passes :
    \A k \in Flagged :
      FlagOf(k, p.settings) = None =>
        /\ FindingsOf(p.result, k) = {}
        /\ ~ last.raised
        /\ \A u \in Unflagged :
             \A n \in 1..Len(Matches(text[p.view], u)) :
               \E i \in FindingsOf(p.result, u) :
                 p.result[i].region = Matches(text[p.view], u)[n]

\* A pass, with no value for the flag, over a text in which a flagged rule
\* and an unflagged rule both match.
C9_Witness ==
  \E p \in Passes :
    /\ p.settings.csp_chromeapps = None
    /\ \E k \in Flagged : Matches(text[p.view], k) # <<>>
    /\ \E u \in Unflagged : FindingsOf(p.result, u) # {}

\* C11: for a text in which no rule's pattern has a match, the empty text
\* among them, a validation pass returns the empty list, whatever the value
\* of the flag, and raises nothing.
C11_NoMatchNoFinding ==
  \A p \in Passes :
    (\A k \in RuleIds : Matches(text[p.view], k) = <<>>) =>
      /\ p.result = <<>>
      /\ ~ last.raised

\* A pass over the empty text with the flag on: every rule is evaluated and
\* the result is empty.
C11_Witness ==
  /\ last.op = "validate_contents"
  /\ \E p \in Passes :
       /\ text[p.view] = <<>>
       /\ p.settings.csp_chromeapps = Some(1)
       /\ p.result = <<>>

C13_CaseInsensitive ==
  \A p \in Passes :
    /\ p.result = validate_contents(LowerText(text[p.view]), p.settings)
    /\ p.result = validate_contents(UpperText(text[p.view]), p.settings)

\* A pass with findings over a text that has capital and small letters.
C13_Witness ==
  \E p \in Passes :
    /\ p.result # <<>>
    /\ text[p.view] # LowerText(text[p.view])
    /\ text[p.view] # UpperText(text[p.view])

(***************************************************************************)
(* Properties of the event handlers and of the toggle command.             *)
(***************************************************************************)

\* the views run_validator ran on in the last handler
Ran == {last.ran[n] : n \in 1..Len(last.ran)}

\* C5: when run_validator has run on a view whose csp_enabled setting is 0
\* after apply_settings, validate_contents was not called for the view in
\* that run and the view has no marker.
C5_DisabledGate ==
  \A v \in Ran :
    settings[v].csp_enabled = Some(0) =>
      /\ \A p \in Passes : p.view # v
      /\ regions[v] = <<>>

\* run_validator has run on a disabled view of a syntax the plugin checks,
\* after an earlier pass had found violations: the markers are gone.
C5_Witness ==
  \E v \in Ran :
    /\ settings[v].csp_enabled = Some(0)
    /\ is_valid_file_type(settings[v])
    /\ errors # None
    /\ Val(errors) # <<>>
    /\ regions[v] = <<>>

\* C6: each run of the toggle command flips csp_enabled in the plugin's
\* settings between 1 and 0, a key left out of the settings file counting as
\* its default, then runs run_validator on every open view, after which the
\* csp_enabled of every view is the flipped value.  (That two runs restore
\* the value follows from the flip.)
C6_ToggleFlips ==
  [][last'.op = "toggle" =>
       /\ ~ last'.raised
       /\ pluginSettings'["csp_enabled"] \in {Some(0), Some(1)}
       /\ pluginSettings'["csp_enabled"] # SettingValue(pluginSettings, "csp_enabled")
       /\ last'.ran = views
       /\ \A v \in Views :
            settings'[v].csp_enabled = pluginSettings'["csp_enabled"]]_vars

\* the pass made last
LatestPass == last.passes[Len(last.passes)]

\* C7: once a validation pass on a view has completed, the findings the
\* listener holds and the markers of the view are the findings of that
\* latest pass, and nothing of an earlier pass.
C7_LatestPassReplaces ==
  last.passes # <<>> =>
    /\ errors = Some(LatestPass.result)
    /\ regions[LatestPass.view]
         = [n \in 1..Len(LatestPass.result) |-> LatestPass.result[n].region]

\* the pairs (selection, finding) in which the finding contains the selection
Hits(sel, errs) ==
  {h \in (1..Len(sel)) \X (1..Len(errs)) : Contains(errs[h[2]].region, sel[h[1]])}

\* the first of the pairs: first by the selection, then by the finding
FirstHit(H) ==
  CHOOSE h \in H :
    \A g \in H : h[1] < g[1] \/ (h[1] = g[1] /\ h[2] <= g[2])

\* C8: after a selection change in a view the status of the view is the
\* message of the first stored finding that contains a selection, first by
\* the order of the selections and then by the order of the findings, and is
\* empty when no stored finding contains a selection; whatever the status
\* showed before is gone.
C8_StatusOfSelection ==
  last.op = "on_selection_modified" =>
    LET sel == Val(last.sel)
        errs == IF errors = None THEN <<>> ELSE Val(errors)
    IN  status[Val(last.view)] =
          IF Hits(sel, errs) = {} THEN None
          ELSE Some(errs[FirstHit(Hits(sel, errs))[2]].message)

\* A selection change with two selections, each inside a finding, in which
\* the first selection is inside the later finding: the status is the
\* message of the later finding.
C8_Witness ==
  /\ last.op = "on_selection_modified"
  /\ errors # None
  /\ Len(Val(last.sel)) = 2
  /\ \E h, g \in Hits(Val(last.sel), Val(errors)) :
       /\ h[1] < g[1]
       /\ h[2] > g[2]
       /\ Val(errors)[h[2]].message # Val(errors)[g[2]].message
       /\ status[Val(last.view)] = Some(Val(errors)[h[2]].message)

RunEvents == {"on_load", "on_activated", "on_post_save"}

\* C14: the handling of on_load, on_activated and on_post_save on a view
\* whose csp_enabled, as apply_settings leaves it, is not 0 and whose syntax
\* is eligible makes one validation pass, on that view and its buffer, and
\* leaves the findings of the pass drawn as the markers of the view.
C14_EventsValidate ==
  (/\ last.op \in RunEvents
   /\ settings[Val(last.view)].csp_enabled # Some(0)
   /\ is_valid_file_type(settings[Val(last.view)])) =>
     /\ Len(last.passes) = 1
     /\ LatestPass.view = Val(last.view)
     /\ \A k \in Unflagged :
          Cardinality(FindingsOf(LatestPass.result, k))
            = Len(Matches(text[Val(last.view)], k))
     /\ regions[Val(last.view)]
          = [n \in 1..Len(LatestPass.result) |-> LatestPass.result[n].region]

\* A save of an enabled view of an eligible syntax: one pass, with findings,
\* and the markers drawn.
C14_Witness ==
  /\ last.op = "on_post_save"
  /\ settings[Val(last.view)].csp_enabled = Some(1)
  /\ Len(last.passes) = 1
  /\ LatestPass.result # <<>>
  /\ regions[Val(last.view)] # <<>>

\* the names a syntax is looked up for
EligibleWords ==
  { <<"h","t","m","l">>, <<"j","a","v","a","s","c","r","i","p","t">>,
    <<"c","s","s">> }

\* the syntax setting has a value, and the value in small letters has one
\* of the words as a substring
Eligible(syntax) ==
  /\ syntax # None
  /\ \E word \in EligibleWords :
       \E i \in 1..Len(Val(syntax)) :
         /\ i + Len(word) - 1 <= Len(Val(syntax))
         /\ SubSeq(LowerText(Val(syntax)), i, i + Len(word) - 1) = word

\* C15: a view is eligible exactly when its syntax setting has a value that
\* contains html, javascript or css, in any letter case; a run of
\* run_validator on an enabled view makes a validation pass on the view if
\* and only if the view is eligible, and none on a view without a syntax.
C15_Eligibility ==
  \A v \in Ran :
    /\ is_valid_file_type(settings[v]) <=> Eligible(settings[v].syntax)
    /\ settings[v].csp_enabled # Some(0) =>
         ((\E p \in Passes : p.view = v) <=> Eligible(settings[v].syntax))
    /\ settings[v].syntax = None => \A p \in Passes : p.view # v

\* run_validator has made a pass on a view whose syntax has css inside a
\* longer name.
C15_Witness ==
  \E v \in Ran :
    /\ settings[v].syntax = Some(SyntaxSCSS)
    /\ \E p \in Passes : p.view = v

\* C16: the status a selection change sets in a view is the message of a
\* finding of the most recent validation pass of that view, one that
\* contains a selection of the view; no finding of a pass on another view
\* or of an earlier pass decides it.
C16_StatusFromOwnPass ==
  (last.op = "on_selection_modified" /\ status[Val(last.view)] # None) =>
    /\ findings[Val(last.view)] # None
    /\ \E n \in 1..Len(Val(findings[Val(last.view)])) :
         /\ Val(findings[Val(last.view)])[n].message = Val(status[Val(last.view)])
         /\ \E i \in 1..Len(Val(last.sel)) :
              Contains(Val(findings[Val(last.view)])[n].region, Val(last.sel)[i])

\* C17: a view on which run_validator has run with csp_enabled = 0, and
\* whose validation has not been enabled since, has no marker and no
\* violation message in its status.
C17_DisabledShowsNothing ==
  \A v \in Views :
    (settings[v].csp_configured # None /\ settings[v].csp_enabled = Some(0)) =>
      /\ regions[v] = <<>>
      /\ status[v] = None

\* the value a flag is to get: the user's when the settings file has one,
\* 1 for csp_enabled and 0 for csp_chromeapps otherwise
FlagFor(ps, name) ==
  IF ps[name] # None THEN ps[name]
  ELSE IF name = "csp_enabled" THEN Some(1) ELSE Some(0)

\* C18: the flags of a view are applied once per generation of the
\* settings.  A run of run_validator on a view whose csp_configured is set
\* leaves the view's csp_enabled and csp_chromeapps as they are; on a view
\* whose csp_configured has been reset, by clear_settings after a change of
\* the settings or in the toggle, it sets each of the two to the user's value
\* when the settings have one (0 included) and to the default otherwise, and
\* sets csp_configured.  Every change of the settings resets csp_configured
\* in every view.
C18_ConfiguredOnce ==
  [][/\ \A n \in 1..Len(last'.ran) :
          LET v == last'.ran[n]
          IN  IF last'.op # "toggle" /\ settings[v].csp_configured # None
              THEN /\ settings'[v].csp_enabled = settings[v].csp_enabled
                   /\ settings'[v].csp_chromeapps = settings[v].csp_chromeapps
                   /\ settings'[v].csp_configured # None
              ELSE /\ settings'[v].csp_configured # None
                   /\ \A name \in SettingNames :
                        settings'[v][name] = FlagFor(pluginSettings', name)
     /\ pluginSettings' # pluginSettings =>
          \A v \in Views :
            \/ \E n \in 1..Len(last'.ran) : last'.ran[n] = v
            \/ settings'[v].csp_configured = None]_vars

\* A view configured anew, after a pass of an earlier generation, from
\* settings that give csp_enabled the value 0 and csp_chromeapps none.
C18_Witness ==
  /\ last.op \in RunEvents
  /\ errors # None
  /\ pluginSettings = [csp_enabled |-> Some(0), csp_chromeapps |-> None]
  /\ settings[Val(last.view)].csp_configured # None
  /\ settings[Val(last.view)].csp_enabled = Some(0)
  /\ settings[Val(last.view)].csp_chromeapps = Some(0)

\* C19: a run of run_validator, from on_load, on_activated or on_post_save,
\* on a view that is enabled and not eligible changes neither the findings
\* the listener holds nor the markers of any view, and makes no pass: it
\* erases the status of the view and, if the view was not configured,
\* configures it, and changes nothing else.
C19_IneligibleFrame ==
  [][(/\ last'.op \in RunEvents
      /\ settings'[Val(last'.view)].csp_enabled # Some(0)
      /\ ~ Eligible(settings'[Val(last'.view)].syntax)) =>
        /\ errors' = errors
        /\ regions' = regions
        /\ last'.passes = <<>>
        /\ status' = [status EXCEPT ![Val(last'.view)] = None]
        /\ text' = text
        /\ pluginSettings' = pluginSettings
        /\ \A v \in Views :
             \/ settings'[v] = settings[v]
             \/ /\ v = Val(last'.view)
                /\ settings[v].csp_configured = None
                /\ settings'[v].csp_configured # None
                /\ settings'[v].syntax = settings[v].syntax]_vars

\* run_validator has run on an enabled view of a syntax that is not
\* eligible: the markers an earlier pass drew are in place.
C19_Witness ==
  /\ last.op \in RunEvents
  /\ settings[Val(last.view)].csp_enabled = Some(1)
  /\ settings[Val(last.view)].syntax = Some(SyntaxPython)
  /\ last.passes = <<>>
  /\ regions[Val(last.view)] # <<>>

====
